---- MODULE Spec2Model ----
(***************************************************************************)
(* MongoCatalogApp: the product collection and the request handlers of    *)
(* services/products.py that read and write it.  A document is a mapping  *)
(* from field names to values; the collection is the sequence of stored   *)
(* documents in natural (insertion) order.  Every pymongo call of a       *)
(* handler (find_one, insert_one, update_one, delete_one) is one atomic   *)
(* step on the collection; a handler that makes several calls is several  *)
(* steps, between which other handlers may run.                           *)
(***************************************************************************)
EXTENDS Integers, Sequences, FiniteSets, TLC

VARIABLES
    store,    \* the products collection: its documents in natural order
    pc,       \* per task: "idle", or the call its handler makes next
    call,     \* per task: the request it is serving (or served last)
    outcome,  \* per task: how its last request ended
    ret,      \* per task: the document its last request returned
    after,    \* per task: the document with its sku right after its store call
    log,      \* the store calls made so far, in the order the store took them
    nreq      \* number of requests received

vars == <<store, pc, call, outcome, ret, after, log, nreq>>

(***************************************************************************)
(* Bounds and input sets                                                   *)
(***************************************************************************)
\* total number of requests served in one behaviour
MaxRequests == 2

\* request-handling tasks the HTTP runtime runs in parallel
Procs == {"t1", "t2"}

\* SKU1001 and SKU1004 are seeded, SKU9999 is not
SKUs == {"SKU1001", "SKU1004", "SKU9999"}

\* a Python None
None == "None"

\* no document: what find_one returns when nothing matches (a result is a
\* sequence of at most one document)
NoDoc == <<>>

\* the empty dict
EmptyMap == <<>>

\* seed.py: SKU1001 with its two reviews, SKU1004 with none
InitStore ==
    << [sku |-> "SKU1001", name |-> "Wireless Headphones",
        reviews |-> << [review_id |-> "r1001-1", rating |-> 5, verified |-> TRUE],
                       [review_id |-> "r1001-2", rating |-> 4, verified |-> TRUE] >>],
       [sku |-> "SKU1004", name |-> "USB-C Docking Station", reviews |-> <<>>] >>

\* bodies of POST /products
CreateBodies ==
    { [sku |-> s, name |-> "Mechanical Keyboard", reviews |-> <<>>] :
        s \in {"SKU1001", "SKU9999"} }

\* raw JSON bodies of PATCH /products/{sku}
RawUpdateBodies ==
    { [sku |-> "SKU9999", name |-> "4K Monitor"] }

\* reviews given to add_review
NewReviews == { [review_id |-> "r1001-2", rating |-> 3, verified |-> FALSE] }

\* review ids given to update_review_positional
ReviewIds == {"r1001-2", "r1-1"}

\* update_data given to update_review_positional; the function takes any
\* dict, the key field of a review included
PositionalFields == { [rating |-> 5], [review_id |-> "r1-1"] }

\* filter_criteria given to update_review_array_filters
Predicates == { EmptyMap, [verified |-> TRUE], [rating |-> 5, verified |-> TRUE] }

\* new_data given to update_review_array_filters (never empty: the server
\* refuses an array filter the update does not use)
NewData == { [verified |-> FALSE], [rating |-> 5] }

(***************************************************************************)
(* The document store (pymongo collection) as the handlers use it          *)
(***************************************************************************)
\* the first of the positions S of a sequence, 0 when there is none
FirstIndex(S) ==
    IF S = {} THEN 0 ELSE CHOOSE i \in S : \A j \in S : i <= j

\* $set of the fields of u on the mapping d: named fields take the new
\* value (and are created when absent), all others keep theirs
Merge(d, u) ==
    [f \in (DOMAIN d) \cup (DOMAIN u) |-> IF f \in DOMAIN u THEN u[f] ELSE d[f]]

\* an array element satisfies {"rev.k": v, ...}: every k equals v
Matches(e, filter_criteria) ==
    \A k \in DOMAIN filter_criteria : k \in DOMAIN e /\ e[k] = filter_criteria[k]

\* the query {"sku": sku}
HasSku(doc, sku) == doc.sku = sku

\* the query {"sku": sku, "reviews.review_id": review_id}
HasSkuAndReview(doc, sku, review_id) ==
    /\ doc.sku = sku
    /\ \E j \in 1..Len(doc.reviews) : doc.reviews[j].review_id = review_id

\* coll.find_one({"sku": sku}, {"_id": 0})
find_one(s, sku) ==
    LET i == FirstIndex({k \in 1..Len(s) : HasSku(s[k], sku)})
    IN  IF i = 0 THEN NoDoc ELSE <<s[i]>>

\* an update that reaches every element carrying the review id
SetEveryMatching(doc, review_id, update_data) ==
    [doc EXCEPT !.reviews =
        [j \in 1..Len(@) |->
            IF @[j].review_id = review_id THEN Merge(@[j], update_data) ELSE @[j]]]

\* {"$set": {"reviews.$.k": v}}: the positional operator addresses the first
\* array element that satisfied the query's array condition
SetPositional(doc, review_id, update_data) ==
    LET j == FirstIndex({k \in 1..Len(doc.reviews) :
                            doc.reviews[k].review_id = review_id})
    IN  [doc EXCEPT !.reviews[j] = Merge(@, update_data)]

\* {"$set": {"reviews.$[rev].k": v}} with array_filters [{"rev.k": v}]
SetArrayFilters(doc, filter_criteria, new_data) ==
    [doc EXCEPT !.reviews =
        [j \in 1..Len(@) |->
            IF Matches(@[j], filter_criteria) THEN Merge(@[j], new_data) ELSE @[j]]]

\* {"$push": {"reviews": review_data}}
PushReview(doc, review_data) ==
    [doc EXCEPT !.reviews = Append(@, review_data)]

\* coll.update_one: matching are the positions of the documents satisfying
\* the query, updated[i] is document i with the update applied.  The first
\* matching document is replaced; the result counts the documents matched
\* and those actually changed
update_one(s, matching, updated) ==
    LET i == FirstIndex(matching)
    IN  IF i = 0
        THEN [store |-> s, matched_count |-> 0, modified_count |-> 0, error |-> FALSE]
        ELSE [store |-> [s EXCEPT ![i] = updated[i]],
              matched_count |-> 1,
              modified_count |-> IF updated[i] = s[i] THEN 0 ELSE 1,
              error |-> FALSE]

\* the server refuses an update whose array filter names no field
\* (array_filters = [{}]): the call raises and nothing is written
OperationFailure(s) ==
    [store |-> s, matched_count |-> 0, modified_count |-> 0, error |-> TRUE]

\* coll.delete_one({"sku": sku})
delete_one(s, sku) ==
    LET i == FirstIndex({k \in 1..Len(s) : HasSku(s[k], sku)})
    IN  IF i = 0
        THEN [store |-> s, deleted_count |-> 0]
        ELSE [store |-> SubSeq(s, 1, i - 1) \o SubSeq(s, i + 1, Len(s)),
              deleted_count |-> 1]

(***************************************************************************)
(* services/products.py and the routes of app.py                           *)
(***************************************************************************)
\* HTTPException 404 "Product with SKU '...' not found"
not_found == "ProductNotFound"

\* fields of the ProductUpdate model (app.py), all Optional with default None
ProductUpdateFields == {"name", "price", "category"}

\* a ProductUpdate that also declared the key field
ProductUpdateWithSku(raw) ==
    [f \in ProductUpdateFields \cup {"sku"} |-> IF f \in DOMAIN raw THEN raw[f] ELSE None]

\* validation of a PATCH body by ProductUpdate: undeclared keys are dropped,
\* missing ones are None
ProductUpdate(raw) ==
    [f \in ProductUpdateFields |-> IF f \in DOMAIN raw THEN raw[f] ELSE None]

\* update_data of the PATCH route: the fields of the body that are not None
UpdateData(body) ==
    [k \in {f \in DOMAIN body : body[f] # None} |-> body[k]]

\* what the store call of request c does to collection s, and its result
Result(s, c) ==
    LET bySku == {i \in 1..Len(s) : HasSku(s[i], c.sku)}
    IN  CASE c.op = "create_product" ->
               [store |-> Append(s, c.product_data)]
          [] c.op = "update_product" ->
               update_one(s, bySku, [i \in bySku |-> Merge(s[i], c.update_data)])
          [] c.op = "delete_product" ->
               delete_one(s, c.sku)
          [] c.op = "add_review" ->
               update_one(s, bySku, [i \in bySku |-> PushReview(s[i], c.review_data)])
          [] c.op = "update_review_positional" ->
               LET byId == {i \in 1..Len(s) : HasSkuAndReview(s[i], c.sku, c.review_id)}
               IN  update_one(s, byId,
                       [i \in byId |-> SetPositional(s[i], c.review_id, c.update_data)])
          [] c.op = "update_review_array_filters" ->
               IF DOMAIN c.filter_criteria = {}
               THEN OperationFailure(s)
               ELSE update_one(s, bySku,
                       [i \in bySku |->
                           SetArrayFilters(s[i], c.filter_criteria, c.new_data)])

\* the collection after the store calls recorded in l, made one after another
RECURSIVE Replay(_)
Replay(l) ==
    IF l = <<>> THEN InitStore
    ELSE Result(Replay(SubSeq(l, 1, Len(l) - 1)), l[Len(l)].call).store

\* a handler that computed its write from the collection as it was before
\* the latest write of another request (read, modify, write back)
ReadModifyWrite(c) ==
    Result(Replay(SubSeq(log, 1, Len(log) - 1)), c)

\* the handler's single store call acts on the collection as stored now
StoreCall(c) == Result(store, c)

\* a handler that took an unchanged document for a missing one
PositionalFailedOnUnchanged(res) == res.modified_count = 0

\* update_review_positional: if res.matched_count == 0
PositionalFailed(res) == res.matched_count = 0

\* the modified_count test written the wrong way round
ArrayFiltersUnchangedInverted(res) == res.modified_count # 0

\* update_review_array_filters: if res.modified_count == 0
ArrayFiltersUnchanged(res) == res.modified_count = 0

Idle(p) == pc[p] = "idle" /\ nreq < MaxRequests

\* the handler of p makes store call c with result res and either fails with
\* outcome failure (when failed) or goes on to fetch the document
Write(p, c, res, failed, failure) ==
    /\ store' = res.store
    /\ call' = [call EXCEPT ![p] = c]
    /\ log' = Append(log, [proc |-> p, call |-> c])
    /\ nreq' = nreq + 1
    /\ ret' = [ret EXCEPT ![p] = NoDoc]
    /\ IF failed
       THEN /\ pc' = [pc EXCEPT ![p] = "idle"]
            /\ outcome' = [outcome EXCEPT ![p] = failure]
            /\ after' = [after EXCEPT ![p] = NoDoc]
       ELSE /\ pc' = [pc EXCEPT ![p] = "fetch"]
            /\ outcome' = [outcome EXCEPT ![p] = "pending"]
            /\ after' = [after EXCEPT ![p] = find_one(res.store, c.sku)]

\* return coll.find_one({"sku": sku}, {"_id": 0})
ReturnDocument(p, op) ==
    /\ pc[p] = "fetch"
    /\ call[p].op = op
    /\ ret' = [ret EXCEPT ![p] = find_one(store, call[p].sku)]
    /\ outcome' = [outcome EXCEPT ![p] = "success"]
    /\ pc' = [pc EXCEPT ![p] = "idle"]
    /\ UNCHANGED <<store, call, after, log, nreq>>

\* create_product: the SKU check
CreateCheck(p) ==
    /\ Idle(p)
    /\ \E product_data \in CreateBodies :
         LET c == [op |-> "create_product", sku |-> product_data.sku,
                   product_data |-> product_data]
         IN  /\ call' = [call EXCEPT ![p] = c]
             /\ IF find_one(store, product_data.sku) # NoDoc
                THEN /\ pc' = [pc EXCEPT ![p] = "idle"]
                     /\ outcome' = [outcome EXCEPT ![p] = "Conflict"]
                ELSE /\ pc' = [pc EXCEPT ![p] = "insert"]
                     /\ outcome' = [outcome EXCEPT ![p] = "pending"]
    /\ ret' = [ret EXCEPT ![p] = NoDoc]
    /\ after' = [after EXCEPT ![p] = NoDoc]
    /\ nreq' = nreq + 1
    /\ UNCHANGED <<store, log>>

\* create_product: insert_one (inserted_id is always set)
CreateInsert(p) ==
    /\ pc[p] = "insert"
    /\ LET res == StoreCall(call[p])
       IN  /\ store' = res.store
           /\ after' = [after EXCEPT ![p] = find_one(res.store, call[p].sku)]
    /\ log' = Append(log, [proc |-> p, call |-> call[p]])
    /\ pc' = [pc EXCEPT ![p] = "fetch"]
    /\ UNCHANGED <<call, outcome, ret, nreq>>

CreateFetch(p) == ReturnDocument(p, "create_product")

\* PATCH /products/{sku} and update_product
UpdateProduct(p) ==
    /\ Idle(p)
    /\ \E sku \in SKUs, raw \in RawUpdateBodies :
         LET c == [op |-> "update_product", sku |-> sku,
                   update_data |-> UpdateData(ProductUpdate(raw))]
             res == StoreCall(c)
         IN  Write(p, c, res, res.matched_count = 0, not_found)

UpdateProductFetch(p) == ReturnDocument(p, "update_product")

\* delete_product
DeleteProduct(p) ==
    /\ Idle(p)
    /\ \E sku \in SKUs :
         LET c == [op |-> "delete_product", sku |-> sku]
             res == StoreCall(c)
         IN  /\ store' = res.store
             /\ call' = [call EXCEPT ![p] = c]
             /\ log' = Append(log, [proc |-> p, call |-> c])
             /\ outcome' = [outcome EXCEPT ![p] =
                              IF res.deleted_count = 0 THEN not_found ELSE "success"]
    /\ pc' = [pc EXCEPT ![p] = "idle"]
    /\ ret' = [ret EXCEPT ![p] = NoDoc]
    /\ after' = [after EXCEPT ![p] = NoDoc]
    /\ nreq' = nreq + 1

\* add_review
AddReview(p) ==
    /\ Idle(p)
    /\ \E sku \in SKUs, review_data \in NewReviews :
         LET c == [op |-> "add_review", sku |-> sku, review_data |-> review_data]
             res == StoreCall(c)
         IN  Write(p, c, res, res.matched_count = 0, not_found)

AddReviewFetch(p) == ReturnDocument(p, "add_review")

\* update_review_positional
UpdateReviewPositional(p) ==
    /\ Idle(p)
    /\ \E sku \in SKUs, review_id \in ReviewIds, update_data \in PositionalFields :
         LET c == [op |-> "update_review_positional", sku |-> sku,
                   review_id |-> review_id, update_data |-> update_data]
             res == StoreCall(c)
         IN  Write(p, c, res, PositionalFailed(res), not_found)

UpdateReviewPositionalFetch(p) == ReturnDocument(p, "update_review_positional")

\* update_review_array_filters
UpdateReviewArrayFilters(p) ==
    /\ Idle(p)
    /\ \E sku \in SKUs, filter_criteria \in Predicates, new_data \in NewData :
         LET c == [op |-> "update_review_array_filters", sku |-> sku,
                   filter_criteria |-> filter_criteria, new_data |-> new_data]
             res == StoreCall(c)
         IN  Write(p, c, res,
                   res.error \/ res.matched_count = 0 \/ ArrayFiltersUnchanged(res),
                   IF res.error THEN "StoreError"
                   ELSE IF res.matched_count = 0 THEN not_found
                   ELSE "NoMatchOrNoChange")

UpdateReviewArrayFiltersFetch(p) == ReturnDocument(p, "update_review_array_filters")

Init ==
    /\ store = InitStore
    /\ pc = [p \in Procs |-> "idle"]
    /\ call = [p \in Procs |-> [op |-> "none"]]
    /\ outcome = [p \in Procs |-> "none"]
    /\ ret = [p \in Procs |-> NoDoc]
    /\ after = [p \in Procs |-> NoDoc]
    /\ log = <<>>
    /\ nreq = 0

Next ==
    \/ \E p \in Procs : CreateCheck(p)
    \/ \E p \in Procs : CreateInsert(p)
    \/ \E p \in Procs : CreateFetch(p)
    \/ \E p \in Procs : UpdateProduct(p)
    \/ \E p \in Procs : UpdateProductFetch(p)
    \/ \E p \in Procs : DeleteProduct(p)
    \/ \E p \in Procs : AddReview(p)
    \/ \E p \in Procs : AddReviewFetch(p)
    \/ \E p \in Procs : UpdateReviewPositional(p)
    \/ \E p \in Procs : UpdateReviewPositionalFetch(p)
    \/ \E p \in Procs : UpdateReviewArrayFilters(p)
    \/ \E p \in Procs : UpdateReviewArrayFiltersFetch(p)

Spec == Init /\ [][Next]_vars

(***************************************************************************)
(* Vocabulary of the properties                                            *)
(***************************************************************************)
ReviewUpdates == {"update_review_positional", "update_review_array_filters"}

ReviewWrites == ReviewUpdates \cup {"add_review"}

\* this step is the store call of a request: its record is the new last
\* entry of the log
LastRecord == log'[Len(log')]

StoreCallStep(op) ==
    /\ Len(log') = Len(log) + 1
    /\ LastRecord.call.op = op

\* the request went past its store call and will return the document
Proceeds(p) == pc'[p] = "fetch"

\* positions of the stored documents with this sku
DocsWithSku(s, sku) == {i \in 1..Len(s) : s[i].sku = sku}

\* positions of the elements of a reviews array with this review_id
ElemsWithId(reviews, review_id) ==
    {j \in 1..Len(reviews) : reviews[j].review_id = review_id}

Least(S) == CHOOSE x \in S : \A y \in S : x <= y

\* element new is element old with exactly the fields of u set
MergedBy(old, new, u) ==
    /\ DOMAIN new = (DOMAIN old) \cup (DOMAIN u)
    /\ \A f \in DOMAIN new :
         new[f] = IF f \in DOMAIN u THEN u[f] ELSE old[f]

\* element e holds every value of u
Holds(e, u) == \A f \in DOMAIN u : f \in DOMAIN e /\ e[f] = u[f]

\* element e satisfies every equality of the predicate
Satisfies(e, predicate) ==
    \A k \in DOMAIN predicate : k \in DOMAIN e /\ e[k] = predicate[k]

\* documents old and new differ at most in their reviews arrays, which have
\* the same length
SameButReviews(old, new) ==
    /\ DOMAIN new = DOMAIN old
    /\ \A f \in (DOMAIN old) \ {"reviews"} : new[f] = old[f]
    /\ Len(new.reviews) = Len(old.reviews)

(***************************************************************************)
(* C1                                                                      *)
(***************************************************************************)
\* C1: update_review_positional ends in ProductNotFound when no product has
\* the sku, and in the different outcome ReviewNotFound when a product with
\* the sku exists but none of its reviews has the review_id.
C1_DistinctFailures ==
    [][ StoreCallStep("update_review_positional") =>
          LET c == LastRecord.call
              p == LastRecord.proc
              docs == DocsWithSku(store, c.sku)
          IN  /\ (docs = {}) => outcome'[p] = "ProductNotFound"
              /\ (/\ docs # {}
                  /\ \A i \in docs : ElemsWithId(store[i].reviews, c.review_id) = {})
                 => outcome'[p] = "ReviewNotFound" ]_vars

(***************************************************************************)
(* C2                                                                      *)
(***************************************************************************)
\* C2: when a product with the sku has a review with the review_id,
\* update_review_positional succeeds and sets exactly the fields of
\* update_data on the first element carrying that review_id; the element's
\* other fields, the other elements, the array's order and length, the
\* product's other attributes and all other products stay as they were.
C2_PositionalFrame ==
    [][ StoreCallStep("update_review_positional") =>
          LET c == LastRecord.call
              p == LastRecord.proc
              hit == {i \in DocsWithSku(store, c.sku) :
                         ElemsWithId(store[i].reviews, c.review_id) # {}}
          IN  hit # {} =>
                LET i0 == Least(hit)
                    j0 == Least(ElemsWithId(store[i0].reviews, c.review_id))
                IN  /\ Proceeds(p)
                    /\ Len(store') = Len(store)
                    /\ \A i \in 1..Len(store) : i # i0 => store'[i] = store[i]
                    /\ SameButReviews(store[i0], store'[i0])
                    /\ \A j \in 1..Len(store[i0].reviews) :
                         IF j = j0
                         THEN MergedBy(store[i0].reviews[j], store'[i0].reviews[j],
                                       c.update_data)
                         ELSE store'[i0].reviews[j] = store[i0].reviews[j] ]_vars

\* a positional update went through on an array in which two elements carry
\* the review_id: the earlier one holds the new rating, the later one not
C2_Witness ==
    \E p \in Procs :
        /\ pc[p] = "fetch"
        /\ call[p].op = "update_review_positional"
        /\ call[p].update_data = [rating |-> 5]
        /\ after[p] # NoDoc
        /\ \E j, k \in ElemsWithId(after[p][1].reviews, call[p].review_id) :
              /\ j < k
              /\ after[p][1].reviews[j].rating = 5
              /\ after[p][1].reviews[k].rating # 5

(***************************************************************************)
(* C3                                                                      *)
(***************************************************************************)
\* C3: for an existing product, update_review_array_filters merges new_data
\* into every review element that satisfies all equalities of the predicate
\* (an empty predicate is satisfied by every element) and into no other:
\* a successful call leaves every matching element merged and everything
\* else unchanged, and under the empty predicate every element holds the
\* values of new_data after the call.
C3_EveryMatchingElement ==
    [][ StoreCallStep("update_review_array_filters") =>
          LET c == LastRecord.call
              p == LastRecord.proc
              docs == DocsWithSku(store, c.sku)
          IN  docs # {} =>
                LET i0 == Least(docs)
                    old == store[i0].reviews
                    new == store'[i0].reviews
                IN  /\ Proceeds(p) =>
                         /\ Len(store') = Len(store)
                         /\ \A i \in 1..Len(store) : i # i0 => store'[i] = store[i]
                         /\ SameButReviews(store[i0], store'[i0])
                         /\ \A j \in 1..Len(old) :
                              IF Satisfies(old[j], c.filter_criteria)
                              THEN MergedBy(old[j], new[j], c.new_data)
                              ELSE new[j] = old[j]
                    /\ c.filter_criteria = EmptyMap =>
                         \A j \in 1..Len(new) : Holds(new[j], c.new_data) ]_vars

(***************************************************************************)
(* C4                                                                      *)
(***************************************************************************)
\* C4: update_review_array_filters ends in ProductNotFound exactly when no
\* document has the sku, in NoMatchOrNoChange exactly when the document
\* exists and no element satisfying the predicate would change, and
\* succeeds exactly when at least one review element changed.
C4_OutcomeClasses ==
    [][ StoreCallStep("update_review_array_filters") =>
          LET c == LastRecord.call
              p == LastRecord.proc
              docs == DocsWithSku(store, c.sku)
          IN  IF docs = {}
              THEN outcome'[p] = "ProductNotFound" /\ ~Proceeds(p)
              ELSE LET old == store[Least(docs)].reviews
                       changing == {j \in 1..Len(old) :
                                      /\ Satisfies(old[j], c.filter_criteria)
                                      /\ ~Holds(old[j], c.new_data)}
                   IN  /\ (changing = {}) <=>
                              (outcome'[p] = "NoMatchOrNoChange" /\ ~Proceeds(p))
                       /\ (changing # {}) <=> Proceeds(p)
                       /\ Proceeds(p) <=> (store' # store) ]_vars

(***************************************************************************)
(* C5                                                                      *)
(***************************************************************************)
\* the store call before this one was the same update_review_positional
\* call, and it matched
RepeatsMatchedCall ==
    /\ StoreCallStep("update_review_positional")
    /\ Len(log) >= 1
    /\ log[Len(log)].call = LastRecord.call
    /\ Result(Replay(SubSeq(log, 1, Len(log) - 1)), LastRecord.call).matched_count = 1

\* C5 as claimed: update_review_positional called twice in a row with the
\* same arguments, the review_id being present at the first call, succeeds
\* the second time and leaves the collection as the first call left it.
C5_Idempotent ==
    [][ RepeatsMatchedCall => Proceeds(LastRecord.proc) /\ store' = store ]_vars

\* update_data does not give the element another review_id
KeepsReviewId(c) ==
    "review_id" \in DOMAIN c.update_data => c.update_data["review_id"] = c.review_id

\* C5 amended: the same, for update_data that does not assign the matched
\* element a review_id different from the one the call looks up.
C5_IdempotentKeepingId ==
    [][ RepeatsMatchedCall /\ KeepsReviewId(LastRecord.call)
          => Proceeds(LastRecord.proc) /\ store' = store ]_vars

\* the same matched positional call was made twice in a row and the second
\* call is about to return the document
C5_Witness ==
    /\ Len(log) = 2
    /\ log[1].call = log[2].call
    /\ log[2].call.op = "update_review_positional"
    /\ KeepsReviewId(log[2].call)
    /\ Result(InitStore, log[1].call).modified_count = 1
    /\ pc[log[2].proc] = "fetch"
    /\ call[log[2].proc] = log[2].call

(***************************************************************************)
(* C6                                                                      *)
(***************************************************************************)
Failures == {"ProductNotFound", "ReviewNotFound", "NoMatchOrNoChange"}

\* C6: a review update that ends in ProductNotFound, ReviewNotFound or
\* NoMatchOrNoChange leaves the whole collection as it was.
C6_FailureWritesNothing ==
    [][ \A op \in ReviewUpdates :
          StoreCallStep(op) /\ outcome'[LastRecord.proc] \in Failures
            => store' = store ]_vars

\* an array-filter update ended in NoMatchOrNoChange although an element of
\* the product satisfies its predicate
C6_Witness ==
    \E p \in Procs :
        /\ pc[p] = "idle"
        /\ outcome[p] = "NoMatchOrNoChange"
        /\ \E i \in DocsWithSku(store, call[p].sku) :
             \E j \in 1..Len(store[i].reviews) :
                Satisfies(store[i].reviews[j], call[p].filter_criteria)

(***************************************************************************)
(* C7                                                                      *)
(***************************************************************************)
\* C7: at most one stored product has any given sku.
C7_UniqueSku ==
    \A i, j \in 1..Len(store) : store[i].sku = store[j].sku => i = j

C9_NoLostUpdate ==
    /\ store = Replay(log)
    /\ \A p \in Procs :
         pc[p] = "fetch" =>
           Cardinality({k \in 1..Len(log) :
                          log[k] = [proc |-> p, call |-> call[p]]}) >= 1

\* two review writes on the same product are in flight together, both past
\* their store call
C9_Witness ==
    \E p, q \in Procs :
        /\ p # q
        /\ pc[p] = "fetch" /\ pc[q] = "fetch"
        /\ call[p].op \in ReviewWrites /\ call[q].op \in ReviewWrites
        /\ call[p].sku = call[q].sku
        /\ call[p] # call[q]

(***************************************************************************)
(* C10                                                                     *)
(***************************************************************************)
\* C10: a review update that returned with success returned the document
\* with the sku as its own store call left it: not an absent document, not
\* the state a later writer left.
C10_ReturnsOwnUpdate ==
    \A p \in Procs :
        (/\ pc[p] = "idle"
         /\ outcome[p] = "success"
         /\ call[p].op \in ReviewUpdates)
        => ret[p] # NoDoc /\ ret[p] = after[p]

====
